---- MODULE Spec2Model ----
(***************************************************************************)
(* Model of part_detailed_view/core.py: the PartDetailedView plugin that   *)
(* builds the "Datasheet & Parameters" panel for a part.  Strings are TLA+ *)
(* strings; Python's None is the sentinel None; Django rows are records.   *)
(***************************************************************************)
EXTENDS Integers, Sequences, FiniteSets, TLC

VARIABLES settings, partTable, attachmentTable, parameterTable, nullsFirst, inv

vars == <<settings, partTable, attachmentTable, parameterTable, nullsFirst, inv>>

(* ---------------------------- bounds ----------------------------------- *)
NumInv == 2          \* concurrent invocations of get_ui_panels
MaxAttachments == 2  \* attachment rows of the viewed part
MaxParams == 2       \* parameter rows of the viewed part

Invs == 1..NumInv

(* ---------------------------- Python values ---------------------------- *)
None == "<None>"

Truthy(v) == v # None /\ v # ""

\* Python's `a or b` on strings / None
Or(a, b) == IF Truthy(a) THEN a ELSE b

(* ---------------------------- str methods ------------------------------ *)
UpperChars == "ABCDEFGHIJKLMNOPQRSTUVWXYZ"
LowerChars == "abcdefghijklmnopqrstuvwxyz"
\* the printable characters the model's strings use, in code point order
Ascii == " ./0123456789:ABCDEFGHIJKLMNOPQRSTUVWXYZabcdefghijklmnopqrstuvwxyz"

CharAt(s, i) == SubSeq(s, i, i)

IndexIn(alphabet, c) ==
    IF \E i \in 1..Len(alphabet) : CharAt(alphabet, i) = c
    THEN CHOOSE i \in 1..Len(alphabet) : CharAt(alphabet, i) = c
    ELSE 0

\* str.lower on one character
LowerMap ==
    [c \in {CharAt(UpperChars, i) : i \in 1..Len(UpperChars)} |->
        CharAt(LowerChars, IndexIn(UpperChars, c))]

LowerChar(c) == IF c \in DOMAIN LowerMap THEN LowerMap[c] ELSE c

RECURSIVE Lower(_)
Lower(s) == IF s = "" THEN "" ELSE LowerChar(Head(s)) \o Lower(Tail(s))

IsSpace(c) == c = " "

RECURSIVE LStrip(_)
LStrip(s) == IF s # "" /\ IsSpace(Head(s)) THEN LStrip(Tail(s)) ELSE s

RECURSIVE RStrip(_)
RStrip(s) ==
    IF s # "" /\ IsSpace(CharAt(s, Len(s)))
    THEN RStrip(SubSeq(s, 1, Len(s) - 1))
    ELSE s

Strip(s) == RStrip(LStrip(s))

StartsWith(s, prefix) ==
    Len(s) >= Len(prefix) /\ SubSeq(s, 1, Len(prefix)) = prefix

Contains(s, sub) ==
    \E i \in 1..(Len(s) - Len(sub) + 1) : SubSeq(s, i, i + Len(sub) - 1) = sub

\* Django's `icontains` lookup: case-insensitive containment
IContains(s, sub) == Contains(Lower(s), Lower(sub))

\* the rank of a character in the collation
CodePoint ==
    [c \in {CharAt(Ascii, i) : i \in 1..Len(Ascii)} |-> IndexIn(Ascii, c)]

RECURSIVE StrLess(_, _)
StrLess(a, b) ==
    IF b = "" THEN FALSE
    ELSE IF a = "" THEN TRUE
    ELSE IF Head(a) = Head(b) THEN StrLess(Tail(a), Tail(b))
    ELSE CodePoint[Head(a)] < CodePoint[Head(b)]

(* ---------------------------- records ---------------------------------- *)
\* a FieldFile: falsy when no file is stored; `url` may be missing on a
\* duck-typed storage object
NoFile == [null |-> TRUE, has_url |-> FALSE, url |-> None]
FileValues ==
    { NoFile,
      [null |-> FALSE, has_url |-> FALSE, url |-> None],
      [null |-> FALSE, has_url |-> TRUE, url |-> "/media/b.pdf"],
      [null |-> FALSE, has_url |-> TRUE, url |-> "http://cdn/b.pdf"] }

\* the `filename` attribute: missing from the attachment model, or a method
\* returning the stored file's base name (None for a link-only attachment)
NoFilename == [callable |-> FALSE, value |-> None]
Filename(file, has_method) ==
    IF ~has_method THEN NoFilename
    ELSE [callable |-> TRUE, value |-> IF file.null THEN None ELSE "b.pdf"]

CommentValues == { "DataSheet rev2", "spec sheet" }
LinkValues == { "", "https://x/a.pdf", "/l.pdf" }

\* the request handed to get_ui_panels: None, or an HttpRequest on a host
NoRequest == [null |-> TRUE, base |-> ""]
HttpRequest == [null |-> FALSE, base |-> "http://testserver"]
RequestValues == { NoRequest, HttpRequest }

\* HttpRequest.build_absolute_uri: a location with a scheme is returned as
\* is, a rooted path is joined to scheme://host
BuildAbsoluteUri(request, location) ==
    IF Contains(location, "://") THEN location ELSE request.base \o location

(* ---------------------------- query sets ------------------------------- *)
\* QuerySet.order_by("pk"): the rows of a set as a sequence, pk ascending
RECURSIVE OrderByPk(_)
OrderByPk(rows) ==
    IF rows = {} THEN <<>>
    ELSE LET first == CHOOSE r \in rows : \A q \in rows : r.pk <= q.pk
         IN <<first>> \o OrderByPk(rows \ {first})

\* part.attachments: the related manager, None on a part without one
AttachmentManager(part) ==
    IF part.has_attachments
    THEN [null |-> FALSE, rows |-> {a \in attachmentTable : a.part = part.pk}]
    ELSE [null |-> TRUE, rows |-> {}]

\* fault: the comment filter is dropped
FilterNothing(rows, keyword) == rows

\* manager.filter(comment__icontains=keyword)
FilterCommentIContains(rows, keyword) ==
    {a \in rows : IContains(a.comment, keyword)}

(* ---------------------------- _collect_datasheets ---------------------- *)
\* fault: the stored file's url is preferred to the direct link
RawUrlFileFirst(attachment) ==
    LET file_field == attachment.attachment
    IN IF ~file_field.null /\ file_field.has_url /\ Truthy(file_field.url)
       THEN file_field.url
       ELSE Or(attachment.link, None)

\* lines 124-128: the direct link, else the stored file's url
RawUrl(attachment) ==
    LET raw_url == Or(attachment.link, None)
        file_field == attachment.attachment
    IN IF ~Truthy(raw_url) /\ ~file_field.null /\ file_field.has_url
       THEN file_field.url
       ELSE raw_url

\* lines 133-134
AbsoluteUrl(request, raw_url) ==
    IF ~request.null
       /\ ~(StartsWith(raw_url, "http://") \/ StartsWith(raw_url, "https://"))
    THEN BuildAbsoluteUri(request, raw_url)
    ELSE raw_url

\* lines 136-139
Label(attachment) ==
    LET label == attachment.filename.value
    IN Or(Or(label, attachment.comment), "Datasheet")

\* lines 141-148
DatasheetEntry(request, attachment) ==
    [id |-> attachment.pk,
     label |-> Label(attachment),
     url |-> AbsoluteUrl(request, RawUrl(attachment)),
     comment |-> attachment.comment]

\* fault: `break` in place of `continue` at line 131
RECURSIVE DatasheetLoopBreak(_, _, _, _)
DatasheetLoopBreak(request, qs, i, attachments) ==
    IF i > Len(qs) THEN attachments
    ELSE IF ~Truthy(RawUrl(qs[i])) THEN attachments
         ELSE DatasheetLoopBreak(request, qs, i + 1,
                                 Append(attachments, DatasheetEntry(request, qs[i])))

\* the body of the for loop, lines 123-148, from row i of qs on
RECURSIVE DatasheetLoop(_, _, _, _)
DatasheetLoop(request, qs, i, attachments) ==
    IF i > Len(qs) THEN attachments
    ELSE IF ~Truthy(RawUrl(qs[i]))
         THEN DatasheetLoop(request, qs, i + 1, attachments)
         ELSE DatasheetLoop(request, qs, i + 1,
                            Append(attachments, DatasheetEntry(request, qs[i])))

collect_datasheets(request, part, keyword) ==
    LET attachment_manager == AttachmentManager(part)
    IN IF attachment_manager.null THEN <<>>
       ELSE LET qs == FilterCommentIContains(attachment_manager.rows, keyword)
            IN DatasheetLoop(request, OrderByPk(qs), 1, <<>>)

\* lines 91-92
NormalizeKeyword(setting) ==
    LET keyword == Strip(Or(setting, "")) IN Or(Lower(keyword), "datasheet")

(* ---------------------------- _collect_parameters ---------------------- *)
NullTemplate == [null |-> TRUE, name |-> None, has_units |-> FALSE, units |-> None]
TemplateValues ==
    { NullTemplate,
      [null |-> FALSE, name |-> "", has_units |-> TRUE, units |-> ""],
      [null |-> FALSE, name |-> "Voltage", has_units |-> TRUE, units |-> "V"],
      [null |-> FALSE, name |-> "Current", has_units |-> TRUE, units |-> "A"] }

ParameterNameValues == { None, "", "Vcc" }
UnitsValues == { "", "mV" }

\* ORDER BY template.name ASC, pk ASC over the LEFT JOIN: a row without a
\* template has a NULL name, which the database puts before every name
\* (SQLite, MySQL) or after every name (PostgreSQL)
RowBefore(r, q, nulls_first) ==
    IF r.template.null /\ q.template.null THEN r.pk < q.pk
    ELSE IF r.template.null THEN nulls_first
    ELSE IF q.template.null THEN ~nulls_first
    ELSE \/ StrLess(r.template.name, q.template.name)
         \/ r.template.name = q.template.name /\ r.pk < q.pk

RECURSIVE OrderByTemplateNamePk(_, _)
OrderByTemplateNamePk(rows, nulls_first) ==
    IF rows = {} THEN <<>>
    ELSE LET first == CHOOSE r \in rows :
                          \A q \in rows \ {r} : RowBefore(r, q, nulls_first)
         IN <<first>> \o OrderByTemplateNamePk(rows \ {first}, nulls_first)

\* lines 156-160
ParameterQuerySet(part) ==
    OrderByTemplateNamePk({r \in parameterTable : r.part = part.pk}, nullsFirst)

\* line 162: get_setting("MAX_PARAMETERS") or 0
Limit(setting) == IF setting.null THEN 0 ELSE setting.n

\* fault: the template's name is preferred to the explicit name
ParameterNameTemplateFirst(parameter) ==
    LET name == IF ~parameter.template.null THEN parameter.template.name ELSE None
    IN Or(Or(name, parameter.parameter_name),
          "Parameter " \o ToString(parameter.pk))

\* lines 165-168
ParameterName(parameter) ==
    LET name == parameter.parameter_name
        name2 == IF ~Truthy(name) /\ ~parameter.template.null
                 THEN parameter.template.name
                 ELSE name
    IN Or(name2, "Parameter " \o ToString(parameter.pk))

\* lines 170-172
ParameterUnits(parameter) ==
    LET units == parameter.units
    IN IF ~Truthy(units) /\ ~parameter.template.null /\ parameter.template.has_units
       THEN parameter.template.units
       ELSE units

\* lines 174-181
ParameterEntry(parameter) ==
    [id |-> parameter.pk,
     name |-> ParameterName(parameter),
     value |-> parameter.data,
     units |-> ParameterUnits(parameter)]

\* fault: `>` in place of `>=` at line 183
LimitReachedLate(limit, parameters) == limit # 0 /\ Len(parameters) > limit

\* fault: a negative limit is taken as no limit
LimitReachedPositive(limit, parameters) == limit > 0 /\ Len(parameters) >= limit

\* line 183: `if limit and len(parameters) >= limit`
LimitReached(limit, parameters) == limit # 0 /\ Len(parameters) >= limit

\* the body of the for loop, lines 164-184, from row i of qs on
RECURSIVE ParameterLoop(_, _, _, _)
ParameterLoop(qs, i, parameters, limit) ==
    IF i > Len(qs) THEN parameters
    ELSE LET appended == Append(parameters, ParameterEntry(qs[i]))
         IN IF LimitReached(limit, appended) THEN appended
            ELSE ParameterLoop(qs, i + 1, appended, limit)

collect_parameters(part, max_parameters) ==
    ParameterLoop(ParameterQuerySet(part), 1, <<>>, Limit(max_parameters))

(* ---------------------------- get_ui_panels ---------------------------- *)
\* context.get("target_id"): missing, an int, a str, a list, or a float
NoId == [kind |-> "none", n |-> 0, s |-> ""]
IntId(n) == [kind |-> "int", n |-> n, s |-> ""]
StrId(s) == [kind |-> "str", n |-> 0, s |-> s]
ListId == [kind |-> "list", n |-> 0, s |-> ""]
InfId == [kind |-> "float", n |-> 0, s |-> "inf"]

\* Python truthiness of a target_id
IdTruthy(id) ==
    CASE id.kind = "none" -> FALSE
      [] id.kind = "int" -> id.n # 0
      [] id.kind = "str" -> id.s # ""
      [] id.kind = "list" -> TRUE
      [] id.kind = "float" -> TRUE

\* the `context` argument: None, or a dict
NoContext == [null |-> TRUE, target_model |-> None, target_id |-> NoId]
Context(model, id) == [null |-> FALSE, target_model |-> model, target_id |-> id]

Digits == "0123456789"
IsDigits(s) == s # "" /\ \A i \in 1..Len(s) : IndexIn(Digits, CharAt(s, i)) # 0

RECURSIVE ParseDigits(_)
ParseDigits(s) ==
    IF s = "" THEN 0
    ELSE 10 * ParseDigits(SubSeq(s, 1, Len(s) - 1))
         + (IndexIn(Digits, CharAt(s, Len(s))) - 1)

\* the pk lookup's int(value): the number, or the exception int() raises
ToInt(id) ==
    CASE id.kind = "int" -> [exc |-> None, n |-> id.n]
      [] id.kind = "str" -> IF IsDigits(id.s)
                            THEN [exc |-> None, n |-> ParseDigits(id.s)]
                            ELSE [exc |-> "ValueError", n |-> 0]
      [] id.kind = "list" -> [exc |-> "TypeError", n |-> 0]
      [] id.kind = "float" -> [exc |-> "OverflowError", n |-> 0]
      [] id.kind = "none" -> [exc |-> None, n |-> 0]

\* Part.objects.select_related(None).get(pk=target_id), line 67
PartGet(target_id) ==
    LET pk == ToInt(target_id)
    IN IF pk.exc # None THEN pk
       ELSE IF \E p \in partTable : p.pk = pk.n THEN pk
       ELSE [exc |-> "DoesNotExist", n |-> 0]

\* line 68: except (Part.DoesNotExist, TypeError, ValueError)
Caught == { "DoesNotExist", "TypeError", "ValueError" }

PartRow(pk) == CHOOSE p \in partTable : p.pk = pk

\* lines 97-112
PanelContext(part, datasheets, parameters) ==
    [part |-> [id |-> part.pk,
               name |-> Or(part.full_name, part.name),
               description |-> part.description,
               active |-> part.active,
               url |-> part.absolute_url,
               thumbnail |-> part.image_url],
     datasheets |-> datasheets,
     parameters |-> parameters,
     meta |-> [inventree_version |-> "INVENTREE_SW_VERSION",
               plugin_version |-> "PLUGIN_VERSION"]]

\* lines 73-86
Panels(panel_context) ==
    << [key |-> "part-detailed-view-panel",
        source |-> "Panel.js:renderPartDetailedViewPanel",
        context |-> panel_context] >>

\* lines 88-112
build_panel_context(request, part) ==
    LET keyword == NormalizeKeyword(settings.DATASHEET_COMMENT_KEYWORD)
    IN PanelContext(part,
                    collect_datasheets(request, part, keyword),
                    collect_parameters(part, settings.MAX_PARAMETERS))

\* lines 52-86 run alone: what is returned, or the exception that escapes
get_ui_panels(request, context) ==
    IF ~settings.ENABLE_PART_PANEL THEN [error |-> None, result |-> <<>>]
    ELSE IF context.null \/ context.target_model # "part"
         THEN [error |-> None, result |-> <<>>]
    ELSE IF ~IdTruthy(context.target_id) THEN [error |-> None, result |-> <<>>]
    ELSE LET got == PartGet(context.target_id)
         IN IF got.exc \in Caught THEN [error |-> None, result |-> <<>>]
            ELSE IF got.exc # None THEN [error |-> got.exc, result |-> <<>>]
            ELSE [error |-> None,
                  result |-> Panels(build_panel_context(request, PartRow(got.n)))]

(* ---------------------------- invocations ------------------------------ *)
\* the frame of one call of get_ui_panels: its arguments, its locals, and
\* what it returned (result) or raised (error)
Idle ==
    [pc |-> "idle", context |-> NoContext, request |-> NoRequest, part |-> 0,
     keyword |-> None, datasheets |-> <<>>, parameters |-> <<>>,
     result |-> <<>>, error |-> None]

Set(i, frame) == inv' = [inv EXCEPT ![i] = frame]

ContextValues ==
    { NoContext,
      Context("stockitem", IntId(1)),
      Context(None, IntId(1)),
      Context("part", NoId),
      Context("part", IntId(0)),
      Context("part", IntId(1)),
      Context("part", IntId(7)),
      Context("part", StrId("1")),
      Context("part", StrId("abc")),
      Context("part", ListId),
      Context("part", InfId) }

\* the UI asks for the panels of a target
Request(i) ==
    /\ inv[i].pc = "idle"
    /\ \E context \in ContextValues :
           Set(i, [Idle EXCEPT !.pc = "enabled", !.context = context,
                               !.request = HttpRequest])
    /\ UNCHANGED <<settings, partTable, attachmentTable, parameterTable, nullsFirst>>

\* fault: the enable flag is not consulted
CheckEnabledAlways(i) ==
    /\ inv[i].pc = "enabled"
    /\ Set(i, [inv[i] EXCEPT !.pc = "target"])
    /\ UNCHANGED <<settings, partTable, attachmentTable, parameterTable, nullsFirst>>

\* lines 55-56
CheckEnabled(i) ==
    /\ inv[i].pc = "enabled"
    /\ IF ~settings.ENABLE_PART_PANEL
       THEN Set(i, [inv[i] EXCEPT !.pc = "done", !.result = <<>>])
       ELSE Set(i, [inv[i] EXCEPT !.pc = "target"])
    /\ UNCHANGED <<settings, partTable, attachmentTable, parameterTable, nullsFirst>>

\* lines 58-64
CheckTarget(i) ==
    /\ inv[i].pc = "target"
    /\ LET context == inv[i].context
       IN IF context.null \/ context.target_model # "part"
          THEN Set(i, [inv[i] EXCEPT !.pc = "done", !.result = <<>>])
          ELSE IF ~IdTruthy(context.target_id)
               THEN Set(i, [inv[i] EXCEPT !.pc = "done", !.result = <<>>])
               ELSE Set(i, [inv[i] EXCEPT !.pc = "lookup"])
    /\ UNCHANGED <<settings, partTable, attachmentTable, parameterTable, nullsFirst>>

\* lines 66-69
LookupPart(i) ==
    /\ inv[i].pc = "lookup"
    /\ LET got == PartGet(inv[i].context.target_id)
       IN IF got.exc \in Caught
          THEN Set(i, [inv[i] EXCEPT !.pc = "done", !.result = <<>>])
          ELSE IF got.exc # None
               THEN Set(i, [inv[i] EXCEPT !.pc = "raised", !.error = got.exc])
               ELSE Set(i, [inv[i] EXCEPT !.pc = "keyword", !.part = got.n])
    /\ UNCHANGED <<settings, partTable, attachmentTable, parameterTable, nullsFirst>>

\* fault: the normalised keyword is written back to the plugin's settings
ReadKeywordCached(i) ==
    /\ inv[i].pc = "keyword"
    /\ Set(i, [inv[i] EXCEPT
                  !.pc = "datasheets",
                  !.keyword = NormalizeKeyword(settings.DATASHEET_COMMENT_KEYWORD)])
    /\ settings' = [settings EXCEPT !.DATASHEET_COMMENT_KEYWORD =
                        NormalizeKeyword(settings.DATASHEET_COMMENT_KEYWORD)]
    /\ UNCHANGED <<partTable, attachmentTable, parameterTable, nullsFirst>>

\* lines 91-92
ReadKeyword(i) ==
    /\ inv[i].pc = "keyword"
    /\ Set(i, [inv[i] EXCEPT
                  !.pc = "datasheets",
                  !.keyword = NormalizeKeyword(settings.DATASHEET_COMMENT_KEYWORD)])
    /\ UNCHANGED <<settings, partTable, attachmentTable, parameterTable, nullsFirst>>

\* line 94
CollectDatasheets(i) ==
    /\ inv[i].pc = "datasheets"
    /\ Set(i, [inv[i] EXCEPT
                  !.pc = "parameters",
                  !.datasheets = collect_datasheets(inv[i].request,
                                                    PartRow(inv[i].part),
                                                    inv[i].keyword)])
    /\ UNCHANGED <<settings, partTable, attachmentTable, parameterTable, nullsFirst>>

\* line 95
CollectParameters(i) ==
    /\ inv[i].pc = "parameters"
    /\ Set(i, [inv[i] EXCEPT
                  !.pc = "assemble",
                  !.parameters = collect_parameters(PartRow(inv[i].part),
                                                    settings.MAX_PARAMETERS)])
    /\ UNCHANGED <<settings, partTable, attachmentTable, parameterTable, nullsFirst>>

\* lines 97-112 and 73-86
ReturnPanels(i) ==
    /\ inv[i].pc = "assemble"
    /\ Set(i, [inv[i] EXCEPT
                  !.pc = "done",
                  !.result = Panels(PanelContext(PartRow(inv[i].part),
                                                 inv[i].datasheets,
                                                 inv[i].parameters))])
    /\ UNCHANGED <<settings, partTable, attachmentTable, parameterTable, nullsFirst>>

\* the caller has taken the result or the exception: the frame is gone
Finish(i) ==
    /\ inv[i].pc \in {"done", "raised"}
    /\ Set(i, Idle)
    /\ UNCHANGED <<settings, partTable, attachmentTable, parameterTable, nullsFirst>>

(* ---------------------------- the stored records ----------------------- *)
PartRecord(pk, full_name, has_attachments) ==
    [pk |-> pk, name |-> "R", full_name |-> full_name,
     description |-> "resistor", active |-> TRUE,
     has_attachments |-> has_attachments,
     absolute_url |-> "/part/" \o ToString(pk) \o "/",
     image_url |-> "/media/part.png"]

AttachmentRow(pk, part, comment, link, file, has_method) ==
    [pk |-> pk, part |-> part, comment |-> comment, link |-> link,
     attachment |-> file, filename |-> Filename(file, has_method)]

ParameterRow(pk, part, name, template, units) ==
    [pk |-> pk, part |-> part, parameter_name |-> name, template |-> template,
     units |-> units, data |-> "3.3"]

\* rows of another part, which no query of part 1 may return
OtherPart == PartRecord(2, None, TRUE)
OtherAttachment ==
    AttachmentRow(0, 2, "DataSheet spec sheet", "https://y/other.pdf", NoFile, FALSE)
OtherParameter ==
    ParameterRow(0, 2, "Other", NullTemplate, "")

AttachmentFields ==
    [comment : CommentValues, link : LinkValues, attachment : FileValues]

\* every attachment table holding n attachments of part 1, pks 1..n, on an
\* attachment model with or without the filename method
AttachmentTables(n, has_method) ==
    { { AttachmentRow(k, 1, f[k].comment, f[k].link, f[k].attachment, has_method)
          : k \in 1..n } \cup {OtherAttachment}
      : f \in [1..n -> AttachmentFields] }

ParameterFields ==
    [parameter_name : ParameterNameValues, template : TemplateValues,
     units : UnitsValues]

\* every parameter table holding n parameters of part 1, pks 42..41+n
ParameterTables(n) ==
    { { ParameterRow(41 + k, 1, f[k].parameter_name, f[k].template, f[k].units)
          : k \in 1..n } \cup {OtherParameter}
      : f \in [1..n -> ParameterFields] }

KeywordSettingValues == { None, "  ", " Spec ", "SHEET" }

NoInt == [null |-> TRUE, n |-> 0]
MaxParametersValues ==
    {NoInt} \cup { [null |-> FALSE, n |-> n] : n \in (0 - 2)..(MaxParams + 1) }

Settings(enable, keyword, max_parameters) ==
    [ENABLE_PART_PANEL |-> enable,
     DATASHEET_COMMENT_KEYWORD |-> keyword,
     MAX_PARAMETERS |-> max_parameters]

(* ---------------------------- specifications --------------------------- *)
\* The plugin serving requests against a fixed store.
Init ==
    /\ settings \in { Settings(e, k, m) :
                        e \in BOOLEAN, k \in {None, " Spec "},
                        m \in {NoInt, [null |-> FALSE, n |-> 1]} }
    /\ partTable = { PartRecord(1, "R 10k", TRUE), OtherPart }
    /\ attachmentTable =
         { AttachmentRow(1, 1, "DataSheet rev2", "",
                         [null |-> FALSE, has_url |-> TRUE, url |-> "/media/b.pdf"],
                         TRUE),
           AttachmentRow(2, 1, "spec sheet", "https://x/a.pdf", NoFile, TRUE),
           OtherAttachment }
    /\ parameterTable =
         { ParameterRow(42, 1, None, NullTemplate, ""),
           ParameterRow(43, 1, "",
                        [null |-> FALSE, name |-> "Voltage", has_units |-> TRUE,
                         units |-> "V"], ""),
           OtherParameter }
    /\ nullsFirst \in BOOLEAN
    /\ inv = [i \in Invs |-> Idle]

Next ==
    \E i \in Invs :
        \/ Request(i)
        \/ CheckEnabled(i)
        \/ CheckTarget(i)
        \/ LookupPart(i)
        \/ ReadKeyword(i)
        \/ CollectDatasheets(i)
        \/ CollectParameters(i)
        \/ ReturnPanels(i)
        \/ Finish(i)

Spec == Init /\ [][Next]_vars

\* A frame of get_ui_panels that has resolved part 1 and enters
\* _build_panel_context (line 88)
Entered(request) ==
    [Idle EXCEPT !.pc = "keyword", !.context = Context("part", IntId(1)),
                 !.request = request, !.part = 1]

\* _build_panel_context up to line 94, over every attachment table
InitDatasheets ==
    /\ settings \in { Settings(TRUE, k, NoInt) : k \in KeywordSettingValues }
    /\ \/ /\ partTable = { PartRecord(1, None, TRUE), OtherPart }
          /\ \E n \in 0..MaxAttachments, has_method \in BOOLEAN :
                 attachmentTable \in AttachmentTables(n, has_method)
       \/ /\ partTable = { PartRecord(1, None, FALSE), OtherPart }
          /\ attachmentTable = {OtherAttachment}
    /\ parameterTable = {OtherParameter}
    /\ nullsFirst = TRUE
    /\ \E request \in RequestValues :
           inv = [i \in Invs |-> IF i = 1 THEN Entered(request) ELSE Idle]

NextDatasheets ==
    \E i \in Invs :
        \/ ReadKeyword(i)
        \/ CollectDatasheets(i)

SpecDatasheets == InitDatasheets /\ [][NextDatasheets]_vars

\* _build_panel_context at line 95, over every parameter table
InitParameters ==
    /\ settings \in { Settings(TRUE, None, m) : m \in MaxParametersValues }
    /\ partTable = { PartRecord(1, None, TRUE), OtherPart }
    /\ attachmentTable = {OtherAttachment}
    /\ \E n \in 0..MaxParams : parameterTable \in ParameterTables(n)
    /\ nullsFirst \in BOOLEAN
    /\ inv = [i \in Invs |->
                IF i = 1
                THEN [Entered(NoRequest) EXCEPT !.pc = "parameters",
                                                !.keyword = "datasheet"]
                ELSE Idle]

NextParameters ==
    \E i \in Invs :
        \/ CollectParameters(i)
        \/ ReturnPanels(i)

SpecParameters == InitParameters /\ [][NextParameters]_vars

(* ======================================================================= *)
(* Properties                                                              *)
(* ======================================================================= *)
\* the frame has run line 94: its `datasheets` local is the collector's result
HasDatasheets(i) == inv[i].pc \in {"parameters", "assemble"}

\* the frame has run line 95: its `parameters` local is the collector's result
HasParameters(i) == inv[i].pc = "assemble"

\* the call has ended, by a return or by an exception
Ended(i) == inv[i].pc \in {"done", "raised"}

AttachmentsOf(pk) == {a \in attachmentTable : a.part = pk}
ParametersOf(pk) == {r \in parameterTable : r.part = pk}
AttachmentById(pk) == CHOOSE a \in attachmentTable : a.pk = pk
ParameterById(pk) == CHOOSE r \in parameterTable : r.pk = pk

\* the configured keyword as section 4.1 states it
ConfiguredKeyword ==
    LET raw == settings.DATASHEET_COMMENT_KEYWORD
        trimmed == Lower(Strip(IF raw = None THEN "" ELSE raw))
    IN IF trimmed = "" THEN "datasheet" ELSE trimmed

\* the comments that contain keyword k, in any case
CommentsWith(k) ==
    { c \in {a.comment : a \in attachmentTable} :
        \E pos \in 1..(Len(c) - Len(k) + 1) :
            Lower(SubSeq(c, pos, pos + Len(k) - 1)) = k }

HasUsableUrl(a) ==
    \/ a.link \notin {None, ""}
    \/ ~a.attachment.null /\ a.attachment.has_url /\ a.attachment.url \notin {None, ""}

\* C1: every entry of the datasheet list is an attachment of the viewed part
\* whose comment contains the configured keyword (trimmed, lower-cased,
\* "datasheet" when empty) as a case-insensitive substring; an attachment
\* whose comment lacks the keyword never appears.
C1_OnlyKeywordMatches ==
    \A i \in Invs : HasDatasheets(i) =>
        LET matching == CommentsWith(ConfiguredKeyword)
        IN \A j \in 1..Len(inv[i].datasheets) :
               \E a \in AttachmentsOf(inv[i].part) :
                   /\ a.pk = inv[i].datasheets[j].id
                   /\ a.comment \in matching

\* a non-matching attachment with a valid URL was left out of a non-empty list
C1_Witness ==
    \E i \in Invs :
        /\ HasDatasheets(i)
        /\ inv[i].datasheets # <<>>
        /\ \E a \in AttachmentsOf(inv[i].part) :
               /\ a.comment \notin CommentsWith(ConfiguredKeyword)
               /\ HasUsableUrl(a)
               /\ \A j \in 1..Len(inv[i].datasheets) : inv[i].datasheets[j].id # a.pk

Unresolvable(a) ==
    /\ a.link \in {None, ""}
    /\ a.attachment.null \/ ~a.attachment.has_url

\* C2: a keyword-matching attachment with neither a direct link nor a stored
\* file exposing a URL is left out without an exception, and the list is
\* exactly the list, in ascending identifier order, that the part's other
\* attachments give without it.
C2_UnresolvableOmitted ==
    \A i \in Invs : HasDatasheets(i) =>
        \A a \in AttachmentsOf(inv[i].part) :
            (Unresolvable(a) /\ a.comment \in CommentsWith(ConfiguredKeyword)) =>
                /\ inv[i].error = None
                /\ \A j \in 1..Len(inv[i].datasheets) : inv[i].datasheets[j].id # a.pk
                /\ \A j \in 1..(Len(inv[i].datasheets) - 1) :
                       inv[i].datasheets[j].id < inv[i].datasheets[j + 1].id
                /\ inv[i].datasheets =
                       DatasheetLoop(inv[i].request,
                                     OrderByPk(FilterCommentIContains(
                                         AttachmentsOf(inv[i].part) \ {a},
                                         inv[i].keyword)),
                                     1, <<>>)

\* an unresolvable matching attachment precedes a resolvable one that is listed
C2_Witness ==
    \E i \in Invs :
        /\ HasDatasheets(i)
        /\ \E a, b \in AttachmentsOf(inv[i].part) :
               /\ Unresolvable(a) /\ a.comment \in CommentsWith(ConfiguredKeyword)
               /\ a.pk < b.pk
               /\ \E j \in 1..Len(inv[i].datasheets) : inv[i].datasheets[j].id = b.pk

IsHttp(url) == StartsWith(url, "http://") \/ StartsWith(url, "https://")

\* C9: an entry's url is the attachment's direct link if non-empty, else the
\* stored file's url; with a request and a url that starts with neither
\* "http://" nor "https://" it is the request's absolute form of that url,
\* otherwise that url unchanged.
C9_UrlDerivation ==
    \A i \in Invs : HasDatasheets(i) =>
        \A j \in 1..Len(inv[i].datasheets) :
            LET a == AttachmentById(inv[i].datasheets[j].id)
                base == IF a.link \notin {None, ""} THEN a.link ELSE a.attachment.url
            IN inv[i].datasheets[j].url =
                   IF ~inv[i].request.null /\ ~IsHttp(base)
                   THEN BuildAbsoluteUri(inv[i].request, base)
                   ELSE base

\* a relative direct link beat a file url and was made absolute by the request
C9_Witness ==
    \E i \in Invs :
        /\ HasDatasheets(i)
        /\ ~inv[i].request.null
        /\ \E j \in 1..Len(inv[i].datasheets) :
               LET a == AttachmentById(inv[i].datasheets[j].id)
               IN /\ a.link = "/l.pdf"
                  /\ ~a.attachment.null /\ a.attachment.has_url
                  /\ inv[i].datasheets[j].url = "http://testserver/l.pdf"

(* ---------------------------- parameters ------------------------------- *)
Min(a, b) == IF a <= b THEN a ELSE b

\* the list the collector returns for the frame's part with no limit
Unbounded(i) == collect_parameters(PartRow(inv[i].part), [null |-> FALSE, n |-> 0])

Total(i) == Cardinality(ParametersOf(inv[i].part))

\* C3: with MAX_PARAMETERS 0 or absent all of the part's parameters are
\* returned; with MAX_PARAMETERS = N > 0 exactly min(N, total) are, and they
\* are the first N entries of the unbounded list, in the same order.
C3_LimitTruncates ==
    \A i \in Invs : HasParameters(i) =>
        LET max == settings.MAX_PARAMETERS
            got == inv[i].parameters
        IN /\ (max.null \/ max.n = 0) =>
                  /\ Len(got) = Total(i)
                  /\ {got[j].id : j \in 1..Len(got)}
                         = {r.pk : r \in ParametersOf(inv[i].part)}
                  /\ got = Unbounded(i)
           /\ (~max.null /\ max.n > 0) =>
                  /\ Len(got) = Min(max.n, Total(i))
                  /\ got = SubSeq(Unbounded(i), 1, Min(max.n, Len(Unbounded(i))))

\* a positive limit below the total cut the list
C3_Witness ==
    \E i \in Invs :
        /\ HasParameters(i)
        /\ ~settings.MAX_PARAMETERS.null
        /\ settings.MAX_PARAMETERS.n > 0
        /\ settings.MAX_PARAMETERS.n < Total(i)
        /\ Len(inv[i].parameters) = settings.MAX_PARAMETERS.n

\* C10: a negative MAX_PARAMETERS is not unbounded: the loop stops after
\* the first entry, so exactly min(1, total) entries are returned, the first
\* of the unbounded list when there is one.
C10_NegativeLimit ==
    \A i \in Invs : HasParameters(i) =>
        LET max == settings.MAX_PARAMETERS
            got == inv[i].parameters
        IN (~max.null /\ max.n < 0) =>
               /\ Len(got) = Min(1, Total(i))
               /\ Total(i) > 0 => got[1] = Unbounded(i)[1]

\* a negative limit cut a part's two or more parameters to one
C10_Witness ==
    \E i \in Invs :
        /\ HasParameters(i)
        /\ ~settings.MAX_PARAMETERS.null
        /\ settings.MAX_PARAMETERS.n < 0
        /\ Total(i) >= 2
        /\ Len(inv[i].parameters) = 1

\* the template name a parameter is ordered by in section 3: the empty
\* string without a template
SortName(r) == IF r.template.null THEN "" ELSE r.template.name

KeyLess(r, q) ==
    \/ StrLess(SortName(r), SortName(q))
    \/ SortName(r) = SortName(q) /\ r.pk < q.pk

\* C4: the parameter list is sorted by (template name, identifier), a
\* parameter without a template or with an empty template name counting as
\* the empty string: each entry's key is smaller than its successor's.
C4_SortedByTemplateNameThenId ==
    \A i \in Invs : HasParameters(i) =>
        \A j \in 1..(Len(inv[i].parameters) - 1) :
            KeyLess(ParameterById(inv[i].parameters[j].id),
                    ParameterById(inv[i].parameters[j + 1].id))

SynthesizedName(r) == "Parameter " \o ToString(r.pk)

\* C7 as stated: the explicit name if non-empty, else the template's name
\* if a template is linked, else "Parameter {identifier}".
C7_NameAsStated ==
    \A i \in Invs : HasParameters(i) =>
        \A j \in 1..Len(inv[i].parameters) :
            LET r == ParameterById(inv[i].parameters[j].id)
            IN inv[i].parameters[j].name =
                   IF r.parameter_name \notin {None, ""} THEN r.parameter_name
                   ELSE IF ~r.template.null THEN r.template.name
                   ELSE SynthesizedName(r)

\* C7, amended: the explicit name if non-empty, else the template's name if
\* a template is linked and its name is non-empty, else
\* "Parameter {identifier}".
C7_NameResolution ==
    \A i \in Invs : HasParameters(i) =>
        \A j \in 1..Len(inv[i].parameters) :
            LET r == ParameterById(inv[i].parameters[j].id)
            IN inv[i].parameters[j].name =
                   IF r.parameter_name \notin {None, ""} THEN r.parameter_name
                   ELSE IF ~r.template.null /\ r.template.name # ""
                        THEN r.template.name
                   ELSE SynthesizedName(r)

\* each of the three sources named one entry: an explicit name, the template
\* "Voltage", and "Parameter 42" for parameter 42 with neither
C7_Witness ==
    \E i \in Invs :
        /\ HasParameters(i)
        /\ \E j \in 1..Len(inv[i].parameters) :
               /\ inv[i].parameters[j].id = 42
               /\ ParameterById(42).parameter_name = None
               /\ ParameterById(42).template.null
               /\ inv[i].parameters[j].name = "Parameter 42"
        /\ \E j \in 1..Len(inv[i].parameters) :
               LET r == ParameterById(inv[i].parameters[j].id)
               IN /\ r.parameter_name \in {None, ""}
                  /\ inv[i].parameters[j].name = "Voltage"

(* ---------------------------- get_ui_panels ---------------------------- *)
Absent(i) == inv[i].pc = "done" /\ inv[i].result = <<>> /\ inv[i].error = None

TargetsPart(i) == ~inv[i].context.null /\ inv[i].context.target_model = "part"

IdPresent(i) == ~inv[i].context.null /\ inv[i].context.target_id.kind # "none"

\* the identifier is a number, or the decimal text of one, naming a stored part
NamesPart(id, pk) ==
    /\ \E p \in partTable : p.pk = pk
    /\ \/ id.kind = "int" /\ id.n = pk
       \/ id.kind = "str" /\ IsDigits(id.s) /\ ParseDigits(id.s) = pk

\* C5: with the panel enabled, a part targeted and an identifier given, an
\* identifier that names no stored part, or is malformed, gives an absent
\* panel: the call returns the empty list and no exception leaves it.
C5_LookupFailureIsAbsent ==
    \A i \in Invs :
        ( /\ Ended(i)
          /\ settings.ENABLE_PART_PANEL
          /\ TargetsPart(i)
          /\ IdPresent(i)
          /\ ~\E p \in partTable : NamesPart(inv[i].context.target_id, p.pk) )
        => Absent(i)

\* C6: the call returns absent whenever ENABLE_PART_PANEL is false, whatever
\* the other inputs, and whenever the target is not "part" or no identifier
\* is given; a payload is returned only with the flag true, the target
\* "part", an identifier present and the part found.
C6_GateAndTarget ==
    \A i \in Invs : Ended(i) =>
        /\ ~settings.ENABLE_PART_PANEL => Absent(i)
        /\ (~TargetsPart(i) \/ ~IdPresent(i)) => Absent(i)
        /\ inv[i].result # <<>> =>
               /\ settings.ENABLE_PART_PANEL
               /\ TargetsPart(i)
               /\ IdPresent(i)
               /\ Len(inv[i].result) = 1
               /\ NamesPart(inv[i].context.target_id,
                            inv[i].result[1].context.part.id)

\* with the flag false a request for an existing part was answered absent
C6_Witness ==
    \E i \in Invs :
        /\ ~settings.ENABLE_PART_PANEL
        /\ inv[i].context = Context("part", IntId(1))
        /\ Absent(i)

\* C8: every step of every invocation leaves the stored records and the
\* settings as they were, whatever the interleaving, and what an invocation
\* returns or raises is what it would running alone on its own arguments:
\* nothing of another invocation reaches it.
C8_ReadOnly ==
    [][ /\ settings' = settings
        /\ partTable' = partTable
        /\ attachmentTable' = attachmentTable
        /\ parameterTable' = parameterTable
        /\ \A i \in Invs :
               /\ (~Ended(i) /\ Ended(i)') =>
                      LET alone == get_ui_panels(inv'[i].request, inv'[i].context)
                      IN /\ inv'[i].result = alone.result
                         /\ inv'[i].error = alone.error
               /\ \A j \in Invs \ {i} : inv'[j] # inv[j] => inv'[i] = inv[i] ]_vars

\* two invocations for the same part are in flight at once, one of them in
\* the collectors and the other returned with its payload
C8_Witness ==
    \E i, j \in Invs :
        /\ i # j
        /\ inv[i].pc = "parameters" /\ inv[i].part = 1
        /\ inv[j].pc = "done" /\ inv[j].result # <<>>
        /\ inv[j].context.target_id = IntId(1)

====
